---- MODULE Spec2Model ----
(***************************************************************************)
(* Model of check_layer_violations.py: the architecture layering validator *)
(* (check_dependencies) and its reporter (main).  The two module-level     *)
(* tables SERVICE_LAYERS and DEPENDENCIES are the inputs; they are drawn   *)
(* from bounded sets so that the properties are checked for every small    *)
(* layer map and dependency map, not only for the shipped tables.          *)
(* The second part models remove_dataurl.py, the JSON field stripper, the   *)
(* third the two categorizers of count_all_animations.py, the fourth the   *)
(* component totals of count_project_files.py.                             *)
(***************************************************************************)
EXTENDS Integers, Sequences, FiniteSets, TLC

\* Bounds of the model.
MaxLayer == 2
MaxSize == 4
MaxSizeShared == 3
MaxPathLen == 3
MaxLines == 3
MaxCount == 2

\* The universe of component names the inputs are drawn from.
Names == {"A", "B", "eventBus"}

VARIABLES
    SERVICE_LAYERS,   \* dict name -> layer (module global, line 8)
    DEPENDENCIES,     \* dict name -> list of names, in insertion order (line 83)
    pc,               \* position of the running call
    i,                \* index of the current item of DEPENDENCIES.items()
    j,                \* index of the current element of deps
    violations,       \* the list built by check_dependencies
    stdout,           \* the lines printed by the current run
    violations_count, \* the value returned by main (line 204)
    exit_code,        \* the argument of exit (line 205); -1 before exit
    run,              \* "first" or "second" run in succession
    first,            \* what the first run produced, kept by the caller
    other,            \* the locals of a second, concurrent call of check_dependencies
    not_iterable,     \* the keys of DEPENDENCIES whose value is no collection
    fs,               \* the files that exist: path -> content
    file_path,        \* remove_data_url_from_json: argument
    overwrite,        \* remove_data_url_from_json: argument
    rpc,              \* position of the call of remove_data_url_from_json
    data,             \* remove_data_url_from_json: the loaded document
    css_content,      \* count_transitions / count_hovers: argument, a list of lines
    func,             \* which of count_transitions and count_hovers is called
    found,            \* the local list transitions, or hovers
    categories,       \* the local dict categories: name -> list of selectors
    cpc,              \* position of the call of count_transitions / count_hovers
    cidx,             \* position of the classification loop in found
    result,           \* the count the call returns
    js_files,         \* the number of .js files below each counted directory
    service_counts,   \* print_service_statistics: local
    core_counts,      \* print_service_statistics: local
    ui_total,         \* print_service_statistics: local
    utils_registered, \* print_service_statistics: local
    total_services,   \* print_service_statistics: local
    equation,         \* the numbers printed by line 303, left to right
    spc               \* position of the call of print_service_statistics

vars == <<SERVICE_LAYERS, DEPENDENCIES, pc, i, j, violations, stdout,
          violations_count, exit_code, run, first, other, not_iterable,
          fs, file_path, overwrite, rpc, data,
          css_content, func, found, categories, cpc, cidx, result,
          js_files, service_counts, core_counts, ui_total, utils_registered,
          total_services, equation, spc>>

\* The state of count_all_animations.py.
Animations == <<css_content, func, found, categories, cpc, cidx, result>>

\* The state of count_project_files.py.
Statistics == <<js_files, service_counts, core_counts, ui_total, utils_registered,
                total_services, equation, spc>>

\* The state of remove_dataurl.py, which the validator never touches.
Stripper == <<fs, file_path, overwrite, rpc, data>>

-----------------------------------------------------------------------------
\* Generic helpers.

SeqToSet(seq) == {seq[k] : k \in 1..Len(seq)}

-----------------------------------------------------------------------------
\* The inputs.

LayerMaps == UNION {[S -> 1..MaxLayer] : S \in SUBSET Names}

\* The lists of at most n names.
ListsUpTo(n) == UNION {[1..k -> Names] : k \in 0..n}

\* A dict has each key once and keeps insertion order: a sequence of items
\* with pairwise distinct keys.  MapsOf(n, used, budget) are the dicts of n
\* items whose keys avoid `used` and that declare at most `budget` edges.
RECURSIVE MapsOf(_, _, _)
MapsOf(n, used, budget) ==
    IF n = 0 THEN {<<>>}
    ELSE UNION {{<<[service |-> s, deps |-> l]>> \o rest :
                    rest \in MapsOf(n - 1, used \cup {s}, budget - Len(l))} :
                s \in Names \ used, l \in ListsUpTo(budget)}

\* The dicts whose size, the number of items plus the number of declared
\* edges, is at most MaxSize.
DependencyMapsOfSize(m) == UNION {MapsOf(n, {}, m - n) : n \in 0..m}

DependencyMaps == DependencyMapsOfSize(MaxSize)

-----------------------------------------------------------------------------
\* check_dependencies, piece by piece.

\* `x in SERVICE_LAYERS`
InLayers(name) == name \in DOMAIN SERVICE_LAYERS

\* The literal list of line 157.
FOUNDATION == {"eventBus", "stateManager"}

\* One printed line.  Every line has the same shape; unused fields are ""/0.
Line(kind, name, a, b) == [kind |-> kind, name |-> name, a |-> a, b |-> b]

\* Line 149: the warning for a source that has no layer.
SourceWarningForgotten(service) == <<>>

SourceWarning(service) == <<Line("warn_source", service, 0, 0)>>

\* Lines 155-160: what one inner iteration prints.
IsExemptAnyName(dep) == TRUE

IsExempt(dep) == dep \in FOUNDATION

DepWarning(dep) ==
    IF InLayers(dep) \/ IsExempt(dep) THEN <<>>
    ELSE <<Line("warn_dep", dep, 0, 0)>>

\* Line 165: the comparison that decides a violation.
IsReverseFlipped(service_layer, dep_layer) == service_layer > dep_layer

IsReverseOrEqual(service_layer, dep_layer) == service_layer <= dep_layer

IsReverse(service_layer, dep_layer) == service_layer < dep_layer

\* Lines 166-172: the record appended for a violation.  The description
\* f"layer {service_layer} -> layer {dep_layer}" is the pair of the two numbers
\* in the order they are formatted.
ViolationRecordSwapped(service, dep) ==
    [service          |-> service,
     service_layer    |-> SERVICE_LAYERS[service],
     dependency       |-> dep,
     dependency_layer |-> SERVICE_LAYERS[dep],
     violation        |-> <<SERVICE_LAYERS[dep], SERVICE_LAYERS[service]>>]

ViolationRecord(service, dep) ==
    [service          |-> service,
     service_layer    |-> SERVICE_LAYERS[service],
     dependency       |-> dep,
     dependency_layer |-> SERVICE_LAYERS[dep],
     violation        |-> <<SERVICE_LAYERS[service], SERVICE_LAYERS[dep]>>]

\* violations.append(v)
AppendViolationFront(vs, v) == <<v>> \o vs

AppendViolationOnce(vs, v) ==
    IF \E k \in 1..Len(vs) : vs[k] = v THEN vs ELSE Append(vs, v)

AppendViolation(vs, v) == Append(vs, v)

\* Lines 155-172: the violation list after one inner iteration.
CheckDepExemptFirst(vs, service, dep) ==
    IF IsExempt(dep) \/ ~InLayers(dep) THEN vs
    ELSE IF IsReverse(SERVICE_LAYERS[service], SERVICE_LAYERS[dep])
         THEN AppendViolation(vs, ViolationRecord(service, dep))
         ELSE vs

CheckDep(vs, service, dep) ==
    IF ~InLayers(dep) THEN vs
    ELSE IF IsReverse(SERVICE_LAYERS[service], SERVICE_LAYERS[dep])
         THEN AppendViolation(vs, ViolationRecord(service, dep))
         ELSE vs

\* Line 145: the list a call starts with.
StaleViolations == first.violations

NewViolations == <<>>

-----------------------------------------------------------------------------
\* main's output.

Banner ==
    <<Line("rule", "", 0, 0), Line("title", "", 0, 0),
      Line("rule", "", 0, 0), Line("blank", "", 0, 0)>>

\* Lines 185-189.
OkReport ==
    <<Line("ok", "", 0, 0), Line("blank", "", 0, 0), Line("ok_head", "", 0, 0),
      Line("ok_same_or_lower", "", 0, 0), Line("ok_no_upward", "", 0, 0)>>

\* Lines 194-198: the block of the k-th violation (k counts from 1).
BlockZeroBased(k, v) ==
    <<Line("block_service", v.service, k - 1, v.service_layer),
      Line("block_arrow", "", 0, 0),
      Line("block_dependency", v.dependency, v.dependency_layer, 0),
      Line("block_violation", "", v.violation[1], v.violation[2]),
      Line("blank", "", 0, 0)>>

Block(k, v) ==
    <<Line("block_service", v.service, k, v.service_layer),
      Line("block_arrow", "", 0, 0),
      Line("block_dependency", v.dependency, v.dependency_layer, 0),
      Line("block_violation", "", v.violation[1], v.violation[2]),
      Line("blank", "", 0, 0)>>

RECURSIVE Blocks(_, _)
Blocks(vs, k) ==
    IF k > Len(vs) THEN <<>> ELSE Block(k, vs[k]) \o Blocks(vs, k + 1)

\* Lines 191-198.
ErrorReportCountLast(vs) ==
    Blocks(vs, 1) \o <<Line("error_count", "", Len(vs), 0), Line("blank", "", 0, 0)>>

ErrorReport(vs) ==
    <<Line("error_count", "", Len(vs), 0), Line("blank", "", 0, 0)>> \o Blocks(vs, 1)

\* Lines 184-200.
Report(vs) ==
    (IF vs = <<>> THEN OkReport ELSE ErrorReport(vs)) \o <<Line("rule", "", 0, 0)>>

\* Line 205.
ExitCodeIsCount(count) == count

ExitCode(count) == IF count = 0 THEN 0 ELSE 1

-----------------------------------------------------------------------------
\* The state machine.

NoResult == [violations |-> <<>>, stdout |-> <<>>, exit_code |-> -1]

\* count_transitions and count_hovers are not called.
NoAnimations ==
    /\ css_content = <<>>
    /\ func = "none"
    /\ found = <<>>
    /\ categories = <<>>
    /\ cpc = "none"
    /\ cidx = 0
    /\ result = -1

\* print_service_statistics is not called.
NoStatistics ==
    /\ js_files = <<>>
    /\ service_counts = <<>>
    /\ core_counts = <<>>
    /\ ui_total = 0
    /\ utils_registered = 0
    /\ total_services = 0
    /\ equation = <<>>
    /\ spc = "none"

\* remove_data_url_from_json is not called.
NoStripper ==
    /\ fs = <<>>
    /\ file_path = <<>>
    /\ overwrite = FALSE
    /\ rpc = "none"
    /\ data = <<>>

\* No second call is running.
NoCall == [pc |-> "none", i |-> 0, j |-> 0, violations |-> <<>>]

\* The script is loaded and main has not started.
Loaded ==
    /\ pc = "start"
    /\ i = 0
    /\ j = 0
    /\ violations = <<>>
    /\ stdout = <<>>
    /\ violations_count = 0
    /\ exit_code = -1
    /\ run = "first"
    /\ first = NoResult

Init ==
    /\ SERVICE_LAYERS \in LayerMaps
    /\ DEPENDENCIES \in DependencyMaps
    /\ not_iterable = {}
    /\ other = NoCall
    /\ Loaded
    /\ NoStripper
    /\ NoAnimations
    /\ NoStatistics

Inputs == <<SERVICE_LAYERS, DEPENDENCIES, not_iterable>>

\* Lines 177-182 and 145: main prints the banner and calls check_dependencies.
MainStart ==
    /\ pc = "start"
    /\ stdout' = stdout \o Banner
    /\ violations' = NewViolations
    /\ i' = 1
    /\ j' = 0
    /\ pc' = "for_service"
    /\ UNCHANGED <<Inputs, Stripper, Animations, Statistics, other, violations_count, exit_code, run, first>>

\* Lines 147-150: a source without a layer is warned about and skipped.
UnknownService ==
    /\ pc = "for_service"
    /\ i <= Len(DEPENDENCIES)
    /\ ~InLayers(DEPENDENCIES[i].service)
    /\ stdout' = stdout \o SourceWarning(DEPENDENCIES[i].service)
    /\ i' = i + 1
    /\ UNCHANGED <<Inputs, Stripper, Animations, Statistics, other, pc, j, violations, violations_count, exit_code, run, first>>

\* Lines 147-154: a source with a layer; its dependency list is entered.
EnterService ==
    /\ pc = "for_service"
    /\ i <= Len(DEPENDENCIES)
    /\ InLayers(DEPENDENCIES[i].service)
    /\ DEPENDENCIES[i].service \notin not_iterable
    /\ j' = 1
    /\ pc' = "for_dep"
    /\ UNCHANGED <<Inputs, Stripper, Animations, Statistics, other, i, violations, stdout, violations_count, exit_code, run, first>>

\* Lines 154-172: one iteration of the inner loop.
ForDepConsuming ==
    /\ pc = "for_dep"
    /\ j <= Len(DEPENDENCIES[i].deps)
    /\ LET service == DEPENDENCIES[i].service
           dep == DEPENDENCIES[i].deps[j]
       IN /\ stdout' = stdout \o DepWarning(dep)
          /\ violations' = CheckDep(violations, service, dep)
    /\ DEPENDENCIES' = [DEPENDENCIES EXCEPT ![i].deps = Tail(@)]
    /\ UNCHANGED <<SERVICE_LAYERS, not_iterable, Stripper, Animations, Statistics, other, pc, i, j,
                   violations_count, exit_code, run, first>>

ForDep ==
    /\ pc = "for_dep"
    /\ j <= Len(DEPENDENCIES[i].deps)
    /\ LET service == DEPENDENCIES[i].service
           dep == DEPENDENCIES[i].deps[j]
       IN /\ stdout' = stdout \o DepWarning(dep)
          /\ violations' = CheckDep(violations, service, dep)
    /\ j' = j + 1
    /\ UNCHANGED <<Inputs, Stripper, Animations, Statistics, other, pc, i, violations_count, exit_code, run, first>>

\* Line 154: `for dep in deps` on a value that is no collection raises
\* TypeError; nothing catches it, so main and the script end there.
RaiseSwallowed ==
    /\ pc = "for_service"
    /\ i <= Len(DEPENDENCIES)
    /\ InLayers(DEPENDENCIES[i].service)
    /\ DEPENDENCIES[i].service \in not_iterable
    /\ i' = i + 1
    /\ UNCHANGED <<Inputs, Stripper, Animations, Statistics, other, pc, j, violations, stdout, violations_count, exit_code, run, first>>

Raise ==
    /\ pc = "for_service"
    /\ i <= Len(DEPENDENCIES)
    /\ InLayers(DEPENDENCIES[i].service)
    /\ DEPENDENCIES[i].service \in not_iterable
    /\ pc' = "raised"
    /\ UNCHANGED <<Inputs, Stripper, Animations, Statistics, other, i, j, violations, stdout, violations_count, exit_code, run, first>>

\* Line 154: the dependency list is exhausted; on to the next source.
EndDepsSameService ==
    /\ pc = "for_dep"
    /\ j > Len(DEPENDENCIES[i].deps)
    /\ j' = 0
    /\ pc' = "for_service"
    /\ UNCHANGED <<Inputs, Stripper, Animations, Statistics, other, i, violations, stdout, violations_count, exit_code, run, first>>

EndDeps ==
    /\ pc = "for_dep"
    /\ j > Len(DEPENDENCIES[i].deps)
    /\ i' = i + 1
    /\ j' = 0
    /\ pc' = "for_service"
    /\ UNCHANGED <<Inputs, Stripper, Animations, Statistics, other, violations, stdout, violations_count, exit_code, run, first>>

\* Line 174: the outer loop is exhausted; check_dependencies returns.
Return ==
    /\ pc = "for_service"
    /\ i > Len(DEPENDENCIES)
    /\ pc' = "report"
    /\ UNCHANGED <<Inputs, Stripper, Animations, Statistics, other, i, j, violations, stdout, violations_count, exit_code, run, first>>

\* Lines 184-201: main renders the report and returns the count.
MainReport ==
    /\ pc = "report"
    /\ stdout' = stdout \o Report(violations)
    /\ violations_count' = Len(violations)
    /\ pc' = "exit"
    /\ UNCHANGED <<Inputs, Stripper, Animations, Statistics, other, i, j, violations, exit_code, run, first>>

\* Line 205.
Exit ==
    /\ pc = "exit"
    /\ exit_code' = ExitCode(violations_count)
    /\ pc' = "done"
    /\ UNCHANGED <<Inputs, Stripper, Animations, Statistics, other, i, j, violations, stdout, violations_count, run, first>>

\* The validator is run a second time in the same interpreter on the same
\* tables; the caller keeps what the first run produced and captures the
\* second run's output afresh.  The locals of the finished call are gone.
RunAgain ==
    /\ pc = "done"
    /\ run = "first"
    /\ first' = [violations |-> violations, stdout |-> stdout, exit_code |-> exit_code]
    /\ run' = "second"
    /\ stdout' = <<>>
    /\ exit_code' = -1
    /\ violations' = <<>>
    /\ violations_count' = 0
    /\ i' = 0
    /\ j' = 0
    /\ pc' = "start"
    /\ UNCHANGED <<Inputs, Stripper, Animations, Statistics, other>>

Next ==
    \/ MainStart
    \/ UnknownService
    \/ EnterService
    \/ ForDep
    \/ EndDeps
    \/ Return
    \/ MainReport
    \/ Exit

\* One run of the script.
Spec == Init /\ [][Next]_vars

\* One run, with the interpreter always taking the next step.
SpecFair == Spec /\ WF_vars(Next)

\* Two runs in succession.
NextTwice == Next \/ RunAgain

SpecTwice == Init /\ [][NextTwice]_vars

-----------------------------------------------------------------------------
\* A second call of check_dependencies on another thread, interleaved with
\* the first at every step.  Both read the same tables; each has its own
\* locals; the warnings of both go to the same stdout.

\* The list the second call appends to: its own local.
SharedList(f) == violations

OwnList(f) == f.violations

\* Line 145.
OtherCall ==
    /\ other.pc = "call"
    /\ other' = [pc |-> "for_service", i |-> 1, j |-> 0, violations |-> NewViolations]
    /\ UNCHANGED <<Inputs, Stripper, Animations, Statistics, pc, i, j, violations, stdout, violations_count, exit_code, run, first>>

\* Lines 147-150.
OtherUnknownService ==
    /\ other.pc = "for_service"
    /\ other.i <= Len(DEPENDENCIES)
    /\ ~InLayers(DEPENDENCIES[other.i].service)
    /\ stdout' = stdout \o SourceWarning(DEPENDENCIES[other.i].service)
    /\ other' = [other EXCEPT !.i = @ + 1]
    /\ UNCHANGED <<Inputs, Stripper, Animations, Statistics, pc, i, j, violations, violations_count, exit_code, run, first>>

\* Lines 147-154.
OtherEnterService ==
    /\ other.pc = "for_service"
    /\ other.i <= Len(DEPENDENCIES)
    /\ InLayers(DEPENDENCIES[other.i].service)
    /\ DEPENDENCIES[other.i].service \notin not_iterable
    /\ other' = [other EXCEPT !.pc = "for_dep", !.j = 1]
    /\ UNCHANGED <<Inputs, Stripper, Animations, Statistics, pc, i, j, violations, stdout, violations_count, exit_code, run, first>>

\* Lines 154-172.
OtherForDep ==
    /\ other.pc = "for_dep"
    /\ other.j <= Len(DEPENDENCIES[other.i].deps)
    /\ LET service == DEPENDENCIES[other.i].service
           dep == DEPENDENCIES[other.i].deps[other.j]
       IN /\ stdout' = stdout \o DepWarning(dep)
          /\ other' = [other EXCEPT !.j = @ + 1,
                                    !.violations = CheckDep(OwnList(other), service, dep)]
    /\ UNCHANGED <<Inputs, Stripper, Animations, Statistics, pc, i, j, violations, violations_count, exit_code, run, first>>

\* Line 154.
OtherEndDeps ==
    /\ other.pc = "for_dep"
    /\ other.j > Len(DEPENDENCIES[other.i].deps)
    /\ other' = [other EXCEPT !.pc = "for_service", !.i = @ + 1, !.j = 0]
    /\ UNCHANGED <<Inputs, Stripper, Animations, Statistics, pc, i, j, violations, stdout, violations_count, exit_code, run, first>>

\* Line 174.
OtherReturn ==
    /\ other.pc = "for_service"
    /\ other.i > Len(DEPENDENCIES)
    /\ other' = [other EXCEPT !.pc = "returned"]
    /\ UNCHANGED <<Inputs, Stripper, Animations, Statistics, pc, i, j, violations, stdout, violations_count, exit_code, run, first>>

InitShared ==
    /\ SERVICE_LAYERS \in LayerMaps
    /\ DEPENDENCIES \in DependencyMapsOfSize(MaxSizeShared)
    /\ not_iterable = {}
    /\ other = [pc |-> "call", i |-> 0, j |-> 0, violations |-> <<>>]
    /\ Loaded
    /\ NoStripper
    /\ NoAnimations
    /\ NoStatistics

NextShared ==
    \/ Next
    \/ OtherCall
    \/ OtherUnknownService
    \/ OtherEnterService
    \/ OtherForDep
    \/ OtherEndDeps
    \/ OtherReturn

SpecShared == InitShared /\ [][NextShared]_vars

-----------------------------------------------------------------------------
\* A dependency map with entries that are no collection of names (None, a
\* number): such an entry has no list to walk.

MalformedMaps ==
    {m \in [D : DependencyMaps, bad : SUBSET Names] :
        \A n \in m.bad : \E a \in 1..Len(m.D) : m.D[a].service = n /\ m.D[a].deps = <<>>}

InitMalformed ==
    /\ SERVICE_LAYERS \in LayerMaps
    /\ \E m \in MalformedMaps : DEPENDENCIES = m.D /\ not_iterable = m.bad
    /\ other = NoCall
    /\ Loaded
    /\ NoStripper
    /\ NoAnimations
    /\ NoStatistics

NextMalformed == Next \/ Raise

SpecMalformed == InitMalformed /\ [][NextMalformed]_vars

-----------------------------------------------------------------------------
\* The shipped SERVICE_LAYERS (lines 8-80).
ShippedLayers ==
    "eventBus" :> 2
    @@ "stateManager" :> 2
    @@ "scrollStrategyManager" :> 3
    @@ "entryAnimationStrategyManager" :> 3
    @@ "fileProcessStrategyManager" :> 3
    @@ "transitionFragmentPool" :> 3
    @@ "canvasRenderService" :> 5
    @@ "viewportCalculatorService" :> 5
    @@ "ppiExtractorService" :> 5
    @@ "keyboardService" :> 6
    @@ "fileSaveService" :> 6
    @@ "messageService" :> 6
    @@ "loadingService" :> 6
    @@ "positionSliderService" :> 6
    @@ "customSelectFactory" :> 7
    @@ "cardBoundaryEditorFactory" :> 7
    @@ "colorPickerFactory" :> 7
    @@ "boundaryEditorManagerFactory" :> 7
    @@ "entryAnimationHelpDialogsFactory" :> 7
    @@ "previewManagerFactory" :> 10
    @@ "validationService" :> 9
    @@ "stateWatcherService" :> 9
    @@ "errorDisplayService" :> 9
    @@ "dialogService" :> 9
    @@ "tooltipService" :> 9
    @@ "imageProcessingService" :> 10
    @@ "scrollAnimationService" :> 10
    @@ "entryAnimationService" :> 10
    @@ "performanceMonitorService" :> 10
    @@ "durationSequenceService" :> 10
    @@ "loopConfigurationService" :> 10
    @@ "positionPreviewService" :> 10
    @@ "imageService" :> 11
    @@ "configService" :> 11
    @@ "playbackCoordinatorService" :> 11
    @@ "scrollService" :> 11
    @@ "businessOrchestrationService" :> 11
    @@ "aboutModalService" :> 12
    @@ "advancedLoopService" :> 12
    @@ "imageInfoModalService" :> 12
    @@ "colorPickerModalService" :> 12
    @@ "positionSelectorService" :> 12
    @@ "fileOperationUIService" :> 12
    @@ "parameterControlUIService" :> 12
    @@ "playbackControlUIService" :> 12
    @@ "progressBarService" :> 12
    @@ "sidebarService" :> 12
    @@ "displayCoordinatorService" :> 12
    @@ "PlaybackUIDisablerService" :> 12
    @@ "bubbleMenuService" :> 12
    @@ "entryAnimationConfigPage" :> 12
    @@ "performanceReportPage" :> 12

\* The shipped DEPENDENCIES (lines 83-141), in insertion order.
ShippedDependencies ==
    <<[service |-> "scrollStrategyManager", deps |->
          <<>>],
      [service |-> "fileProcessStrategyManager", deps |->
          <<>>],
      [service |-> "entryAnimationStrategyManager", deps |->
          <<>>],
      [service |-> "transitionFragmentPool", deps |->
          <<>>],
      [service |-> "customSelectFactory", deps |->
          <<"stateManager", "keyboardService">>],
      [service |-> "fileSaveService", deps |->
          <<>>],
      [service |-> "keyboardService", deps |->
          <<>>],
      [service |-> "ppiExtractorService", deps |->
          <<>>],
      [service |-> "canvasRenderService", deps |->
          <<>>],
      [service |-> "viewportCalculatorService", deps |->
          <<>>],
      [service |-> "imageProcessingService", deps |->
          <<"stateManager">>],
      [service |-> "loopConfigurationService", deps |->
          <<"stateManager", "eventBus">>],
      [service |-> "durationSequenceService", deps |->
          <<"stateManager", "eventBus">>],
      [service |-> "performanceMonitorService", deps |->
          <<"stateManager", "eventBus">>],
      [service |-> "scrollAnimationService", deps |->
          <<"eventBus", "stateManager", "scrollStrategyManager",
            "performanceMonitorService">>],
      [service |-> "entryAnimationService", deps |->
          <<"eventBus", "stateManager", "entryAnimationStrategyManager",
            "canvasRenderService", "validationService",
            "performanceMonitorService">>],
      [service |-> "imageService", deps |->
          <<"eventBus", "stateManager", "fileProcessStrategyManager",
            "imageProcessingService">>],
      [service |-> "playbackCoordinatorService", deps |->
          <<"eventBus", "stateManager", "entryAnimationService",
            "scrollAnimationService", "durationSequenceService",
            "viewportCalculatorService", "canvasRenderService",
            "performanceMonitorService">>],
      [service |-> "scrollService", deps |->
          <<"eventBus", "stateManager", "playbackCoordinatorService">>],
      [service |-> "configService", deps |->
          <<"eventBus", "stateManager", "imageService", "scrollService",
            "fileSaveService", "ppiExtractorService",
            "fileProcessStrategyManager">>],
      [service |-> "loadingService", deps |->
          <<"eventBus">>],
      [service |-> "dialogService", deps |->
          <<"keyboardService", "stateManager">>],
      [service |-> "messageService", deps |->
          <<"stateManager">>],
      [service |-> "validationService", deps |->
          <<"stateManager", "fileProcessStrategyManager",
            "scrollStrategyManager">>],
      [service |-> "errorDisplayService", deps |->
          <<"eventBus", "dialogService", "messageService">>],
      [service |-> "stateWatcherService", deps |->
          <<"stateManager", "eventBus">>],
      [service |-> "businessOrchestrationService", deps |->
          <<"eventBus", "stateManager", "imageService", "scrollService",
            "validationService">>],
      [service |-> "tooltipService", deps |->
          <<>>],
      [service |-> "progressBarService", deps |->
          <<"eventBus", "stateManager", "stateWatcherService">>],
      [service |-> "positionPreviewService", deps |->
          <<"stateManager">>],
      [service |-> "positionSliderService", deps |->
          <<"stateManager">>],
      [service |-> "positionSelectorService", deps |->
          <<"eventBus", "validationService", "keyboardService", "stateManager",
            "positionPreviewService", "positionSliderService",
            "stateWatcherService">>],
      [service |-> "advancedLoopService", deps |->
          <<"keyboardService", "stateManager", "loopConfigurationService",
            "durationSequenceService", "displayCoordinatorService",
            "stateWatcherService", "customSelectFactory">>],
      [service |-> "aboutModalService", deps |->
          <<"keyboardService", "stateManager", "eventBus">>],
      [service |-> "imageInfoModalService", deps |->
          <<"ppiExtractorService", "eventBus", "keyboardService", "stateManager">>],
      [service |-> "colorPickerFactory", deps |->
          <<"stateManager", "keyboardService", "eventBus">>],
      [service |-> "colorPickerModalService", deps |->
          <<"keyboardService", "eventBus", "stateManager", "validationService",
            "colorPickerFactory">>],
      [service |-> "sidebarService", deps |->
          <<"eventBus", "keyboardService", "stateManager", "stateWatcherService">>],
      [service |-> "fileOperationUIService", deps |->
          <<"eventBus", "stateManager", "fileProcessStrategyManager">>],
      [service |-> "playbackControlUIService", deps |->
          <<"eventBus", "stateManager", "scrollService", "validationService",
            "keyboardService">>],
      [service |-> "parameterControlUIService", deps |->
          <<"eventBus", "stateManager", "stateWatcherService",
            "scrollStrategyManager", "customSelectFactory",
            "colorPickerModalService">>],
      [service |-> "PlaybackUIDisablerService", deps |->
          <<"stateManager", "stateWatcherService">>],
      [service |-> "displayCoordinatorService", deps |->
          <<"eventBus", "stateManager", "stateWatcherService",
            "canvasRenderService">>],
      [service |-> "cardBoundaryEditorFactory", deps |->
          <<"stateManager", "keyboardService", "viewportCalculatorService">>],
      [service |-> "previewManagerFactory", deps |->
          <<"entryAnimationService", "viewportCalculatorService">>],
      [service |-> "boundaryEditorManagerFactory", deps |->
          <<"cardBoundaryEditorFactory">>],
      [service |-> "entryAnimationHelpDialogsFactory", deps |->
          <<"viewportCalculatorService">>],
      [service |-> "entryAnimationConfigPage", deps |->
          <<"stateManager", "customSelectFactory", "eventBus",
            "validationService", "previewManagerFactory",
            "boundaryEditorManagerFactory", "entryAnimationHelpDialogsFactory">>],
      [service |-> "performanceReportPage", deps |->
          <<"stateManager", "eventBus", "validationService",
            "ppiExtractorService", "transitionFragmentPool">>],
      [service |-> "bubbleMenuService", deps |->
          <<"eventBus", "stateManager", "keyboardService">>]>>

\* The script as shipped.  Its tables name no source without a layer, so
\* the unknown-source branch (lines 148-150) is never taken; that it is never
\* enabled is part of what is checked.
InitShipped ==
    /\ SERVICE_LAYERS = ShippedLayers
    /\ DEPENDENCIES = ShippedDependencies
    /\ not_iterable = {}
    /\ other = NoCall
    /\ Loaded
    /\ NoStripper
    /\ NoAnimations
    /\ NoStatistics

NextShipped ==
    \/ MainStart
    \/ EnterService
    \/ ForDep
    \/ EndDeps
    \/ Return
    \/ MainReport
    \/ Exit

SpecShipped == InitShipped /\ [][NextShipped]_vars

-----------------------------------------------------------------------------
\* check_dependencies as a function of the dependency map: the two loops of
\* lines 147-172 folded over a dict D, with the layer map as it stands.  The
\* result is the returned list and the warning lines printed on the way.

RECURSIVE InnerLoop(_, _, _, _)
InnerLoop(service, deps, k, acc) ==
    IF k > Len(deps) THEN acc
    ELSE InnerLoop(service, deps, k + 1,
                   [violations |-> CheckDep(acc.violations, service, deps[k]),
                    warnings   |-> acc.warnings \o DepWarning(deps[k])])

RECURSIVE OuterLoop(_, _, _)
OuterLoop(D, k, acc) ==
    IF k > Len(D) THEN acc
    ELSE IF ~InLayers(D[k].service)
         THEN OuterLoop(D, k + 1,
                        [violations |-> acc.violations,
                         warnings   |-> acc.warnings \o SourceWarning(D[k].service)])
         ELSE OuterLoop(D, k + 1, InnerLoop(D[k].service, D[k].deps, 1, acc))

check_dependencies(D) == OuterLoop(D, 1, [violations |-> <<>>, warnings |-> <<>>])

-----------------------------------------------------------------------------
\* Vocabulary of the properties.

\* The declared (source, dependency) occurrences: <<a, b>> is the b-th
\* element of the a-th item's list.
Declared ==
    UNION {{<<a, b>> : b \in 1..Len(DEPENDENCIES[a].deps)} : a \in 1..Len(DEPENDENCIES)}

Src(p) == DEPENDENCIES[p[1]].service

Dep(p) == DEPENDENCIES[p[1]].deps[p[2]]

\* Both names have a layer and the source's layer is strictly lower.
Upward(p) ==
    /\ Src(p) \in DOMAIN SERVICE_LAYERS
    /\ Dep(p) \in DOMAIN SERVICE_LAYERS
    /\ SERVICE_LAYERS[Src(p)] < SERVICE_LAYERS[Dep(p)]

\* The dependency has no layer and is no foundation node.
UnknownDep(p) ==
    /\ Src(p) \in DOMAIN SERVICE_LAYERS
    /\ Dep(p) \notin DOMAIN SERVICE_LAYERS
    /\ Dep(p) \notin {"eventBus", "stateManager"}

\* The occurrence has been passed by the running call.
Processed(p) == p[1] < i \/ (p[1] = i /\ p[2] < j)

\* check_dependencies has returned.
Returned == pc \in {"report", "exit", "done"}

IsWarning(l) == l.kind \in {"warn_source", "warn_dep"}

Warnings(out) == SelectSeq(out, IsWarning)

\* The record the contract asks for the occurrence p.
Expected(p) ==
    [service          |-> Src(p),
     service_layer    |-> SERVICE_LAYERS[Src(p)],
     dependency       |-> Dep(p),
     dependency_layer |-> SERVICE_LAYERS[Dep(p)],
     violation        |-> <<SERVICE_LAYERS[Src(p)], SERVICE_LAYERS[Dep(p)]>>]

ReportsEdge(v, p) ==
    /\ v.service = Src(p)
    /\ v.service_layer = SERVICE_LAYERS[Src(p)]
    /\ v.dependency = Dep(p)
    /\ v.dependency_layer = SERVICE_LAYERS[Dep(p)]

\* A list with every later repetition of a name dropped.
RECURSIVE DedupFrom(_, _)
DedupFrom(l, seen) ==
    IF l = <<>> THEN <<>>
    ELSE IF Head(l) \in seen THEN DedupFrom(Tail(l), seen)
    ELSE <<Head(l)>> \o DedupFrom(Tail(l), seen \cup {Head(l)})

\* The dependency map in which every name occurs once per list.
Deduplicated ==
    [a \in 1..Len(DEPENDENCIES) |->
        [service |-> DEPENDENCIES[a].service,
         deps    |-> DedupFrom(DEPENDENCIES[a].deps, {})]]

Occurrences(a, d) ==
    Cardinality({b \in 1..Len(DEPENDENCIES[a].deps) : DEPENDENCIES[a].deps[b] = d})

-----------------------------------------------------------------------------
\* C1 - No false negative: once check_dependencies has returned, every
\* declared edge (s, d) with both names in the layer map, L[s] < L[d] and
\* neither name a foundation node has a violation record carrying s, L[s],
\* d and L[d].
NoFalseNegative ==
    Returned =>
        \A p \in Declared :
            (Upward(p) /\ Src(p) \notin FOUNDATION /\ Dep(p) \notin FOUNDATION)
                => \E k \in 1..Len(violations) : ReportsEdge(violations[k], p)

NoFalseNegativeWitness ==
    /\ pc = "done"
    /\ \E p \in Declared :
           Upward(p) /\ Src(p) \notin FOUNDATION /\ Dep(p) \notin FOUNDATION

\* C2 - No false positive: at no point does the violation list hold a record
\* for a declared edge (s, d) with both names in the layer map and
\* L[s] >= L[d].
NoFalsePositive ==
    \A p \in Declared :
        (/\ Src(p) \in DOMAIN SERVICE_LAYERS
         /\ Dep(p) \in DOMAIN SERVICE_LAYERS
         /\ SERVICE_LAYERS[Src(p)] >= SERVICE_LAYERS[Dep(p)])
            => ~\E k \in 1..Len(violations) :
                    violations[k].service = Src(p) /\ violations[k].dependency = Dep(p)

NoFalsePositiveWitness ==
    /\ pc = "done"
    /\ \E p, q \in Declared :
           /\ Src(p) \in DOMAIN SERVICE_LAYERS /\ Dep(p) \in DOMAIN SERVICE_LAYERS
           /\ Src(q) \in DOMAIN SERVICE_LAYERS /\ Dep(q) \in DOMAIN SERVICE_LAYERS
           /\ Src(p) # Dep(p)
           /\ SERVICE_LAYERS[Src(p)] = SERVICE_LAYERS[Dep(p)]
           /\ SERVICE_LAYERS[Src(q)] > SERVICE_LAYERS[Dep(q)]

\* C3 - Foundation-node exemption: a declared edge whose dependency is a
\* foundation node yields neither a violation nor a warning, whether or not
\* the foundation node is in the layer map and whatever its layer there.
FoundationExempt ==
    \A p \in Declared :
        Dep(p) \in FOUNDATION =>
            /\ ~\E k \in 1..Len(violations) :
                    violations[k].service = Src(p) /\ violations[k].dependency = Dep(p)
            /\ ~\E k \in 1..Len(stdout) :
                    stdout[k].kind = "warn_dep" /\ stdout[k].name = Dep(p)

\* C4 - Unknown-dependency tolerance: every passed occurrence of a name that
\* has no layer and is no foundation node, in the list of a source that has
\* a layer, has printed exactly one warning and added no violation, and the
\* upward edges passed so far are all in the violation list, once per
\* occurrence.
UnknownDepTolerated ==
    /\ \A d \in Names \ (DOMAIN SERVICE_LAYERS \cup FOUNDATION) :
           /\ Cardinality({k \in 1..Len(stdout) :
                               stdout[k].kind = "warn_dep" /\ stdout[k].name = d})
                = Cardinality({p \in Declared :
                                   Processed(p) /\ UnknownDep(p) /\ Dep(p) = d})
           /\ \A k \in 1..Len(violations) : violations[k].dependency # d
    /\ (\E u \in Declared : UnknownDep(u)) =>
           \A p \in Declared :
               (Upward(p) /\ Processed(p)) =>
                   Cardinality({k \in 1..Len(violations) : violations[k] = Expected(p)})
                     = Cardinality({q \in Declared :
                                        Processed(q) /\ Src(q) = Src(p) /\ Dep(q) = Dep(p)})

UnknownDepToleratedWitness ==
    /\ pc = "done"
    /\ \E u, p \in Declared :
           /\ UnknownDep(u)
           /\ Upward(p)
           /\ u[1] = p[1]
           /\ u[2] < p[2]
           /\ <<u[1], u[2] - 1>> \in Declared
           /\ Upward(<<u[1], u[2] - 1>>)
           /\ Len(violations) = 2
           /\ Len(Warnings(stdout)) = 1

\* C5 - Unknown-source handling: a key of the dependency map that has no
\* layer gets exactly one unknown-source warning when it is passed, its list
\* is never entered, no violation names it as the service, and the only
\* unknown-dependency warnings are those of sources that have a layer.
UnknownSourceSkipped ==
    /\ \A a \in 1..Len(DEPENDENCIES) :
           DEPENDENCIES[a].service \notin DOMAIN SERVICE_LAYERS =>
               /\ Cardinality({k \in 1..Len(stdout) :
                                   /\ stdout[k].kind = "warn_source"
                                   /\ stdout[k].name = DEPENDENCIES[a].service})
                    = (IF a < i THEN 1 ELSE 0)
               /\ ~(pc = "for_dep" /\ i = a)
               /\ \A k \in 1..Len(violations) :
                      violations[k].service # DEPENDENCIES[a].service
    /\ Cardinality({k \in 1..Len(stdout) : stdout[k].kind = "warn_dep"})
         = Cardinality({p \in Declared : Processed(p) /\ UnknownDep(p)})
    /\ Returned => i = Len(DEPENDENCIES) + 1

UnknownSourceSkippedWitness ==
    /\ pc = "done"
    /\ Len(DEPENDENCIES) = 2
    /\ DEPENDENCIES[1].service \notin DOMAIN SERVICE_LAYERS
    /\ DEPENDENCIES[1].deps # <<>>
    /\ <<2, 1>> \in Declared
    /\ Upward(<<2, 1>>)
    /\ Len(violations) = 1

\* C6 - Exit-code correspondence: the exit code is 0 exactly when the
\* violation list returned by check_dependencies is empty and 1 otherwise,
\* whatever number of warnings was printed.
ExitCodeCorrespondence ==
    pc = "done" =>
        /\ (exit_code = 0) <=> (violations = <<>>)
        /\ (exit_code = 1) <=> (violations # <<>>)

ExitCodeCorrespondenceWitness ==
    /\ pc = "done"
    /\ exit_code = 0
    /\ Len(Warnings(stdout)) = 2

\* C7 - Discovery order: at every point the violation list is the list of
\* records of the upward occurrences passed so far, in iteration order of
\* the sources and declared order within a source; it is never re-sorted.
RECURSIVE PassedFrom(_, _)
PassedFrom(a, b) ==
    IF ~Processed(<<a, b>>) \/ a > Len(DEPENDENCIES) THEN <<>>
    ELSE IF b > Len(DEPENDENCIES[a].deps) THEN PassedFrom(a + 1, 1)
    ELSE IF Upward(<<a, b>>) THEN <<Expected(<<a, b>>)>> \o PassedFrom(a, b + 1)
    ELSE PassedFrom(a, b + 1)

DiscoveryOrder == violations = PassedFrom(1, 1)

DiscoveryOrderWitness ==
    /\ pc = "done"
    /\ Len(violations) = 2
    /\ violations[1] # violations[2]

\* C8 (as stated) - Duplicate edges are one logical edge: the violations and
\* warnings are those of the input in which every name occurs once per list.
DuplicatesCollapse ==
    Returned =>
        LET once == check_dependencies(Deduplicated)
        IN /\ violations = once.violations
           /\ Warnings(stdout) = once.warnings

\* C8 (amended) - Duplicate edges are reported once per occurrence: the
\* distinct violations and the distinct warnings are those of the input in
\* which every name occurs once per list, and every violation record appears
\* as many times as its dependency occurs in its source's list.
DuplicatesPerOccurrence ==
    Returned =>
        LET once == check_dependencies(Deduplicated)
        IN
        /\ SeqToSet(violations) = SeqToSet(once.violations)
        /\ SeqToSet(Warnings(stdout)) = SeqToSet(once.warnings)
        /\ \A p \in Declared :
               Upward(p) =>
                   Cardinality({k \in 1..Len(violations) : violations[k] = Expected(p)})
                     = Occurrences(p[1], Dep(p))

DuplicatesPerOccurrenceWitness ==
    /\ pc = "done"
    /\ \E p, q \in Declared :
           /\ p[1] = q[1]
           /\ p[2] < q[2]
           /\ Dep(p) = Dep(q)
           /\ Upward(p)
           /\ Len(violations) = 2

Idempotent ==
    (run = "second" /\ pc = "done") =>
        /\ violations = first.violations
        /\ Warnings(stdout) = Warnings(first.stdout)
        /\ exit_code = first.exit_code

IdempotentWitness ==
    /\ run = "second"
    /\ pc = "done"
    /\ violations # <<>>
    /\ Warnings(stdout) # <<>>

\* C11 - Re-entrancy: when two calls of check_dependencies are interleaved
\* step by step, each returns the violation list it returns when run alone.
ReentrantCalls ==
    /\ Returned => violations = check_dependencies(DEPENDENCIES).violations
    /\ other.pc = "returned" =>
           other.violations = check_dependencies(DEPENDENCIES).violations

ReentrantCallsWitness ==
    /\ other.pc = "returned"
    /\ Len(other.violations) = 2
    /\ pc = "for_dep"
    /\ j = 2
    /\ Len(violations) = 1

\* The places of the lines of a kind in the output.
Places(kinds) == {k \in 1..Len(stdout) : stdout[k].kind \in kinds}

WarningKinds == {"warn_source", "warn_dep"}

BlockKinds == {"block_service", "block_arrow", "block_dependency", "block_violation"}

ReportKinds == BlockKinds \cup {"error_count", "ok", "ok_head", "ok_same_or_lower", "ok_no_upward"}

\* C12 (as stated) - Reporter ordering: every warning line precedes every
\* violation block, and the count of violations comes after the blocks.
ReporterOrderCountLast ==
    /\ \A w \in Places(WarningKinds), b \in Places(BlockKinds) : w < b
    /\ \A b \in Places(BlockKinds), c \in Places({"error_count"}) : b < c

\* C12 (amended) - Reporter ordering: every warning line precedes the count
\* of violations and every violation block, and the count of violations
\* comes before the blocks; once the report is printed with a violation,
\* the count is there exactly once.
ReporterOrder ==
    /\ \A w \in Places(WarningKinds), b \in Places(BlockKinds \cup {"error_count"}) : w < b
    /\ \A b \in Places(BlockKinds), c \in Places({"error_count"}) : c < b
    /\ (pc \in {"exit", "done"} /\ violations # <<>>) =>
           Cardinality(Places({"error_count"})) = 1

ReporterOrderWitness ==
    /\ pc = "done"
    /\ Places(WarningKinds) # {}
    /\ Len(violations) = 2

\* C13 (as stated) - Fail-fast on malformed input: when the run aborts on an
\* entry that is no collection of names, nothing has been printed.
FailFastSilent == pc = "raised" => stdout = <<>>

\* C13 (amended) - Malformed input: the run aborts exactly when the loop
\* reaches an entry that is no collection of names and whose source has a
\* layer.  At the abort the banner and the warnings of the entries before it
\* have been printed, no report line has been printed and the exit call of
\* line 205 has not been reached.
\* A run that does not abort completes with the report printed.
FailFast ==
    /\ pc = "raised" =>
           /\ DEPENDENCIES[i].service \in not_iterable
           /\ DEPENDENCIES[i].service \in DOMAIN SERVICE_LAYERS
           /\ SubSeq(stdout, 1, Len(Banner)) = Banner
           /\ \A k \in Len(Banner) + 1..Len(stdout) : stdout[k].kind \in WarningKinds
           /\ Places(ReportKinds) = {}
           /\ exit_code = -1
    /\ Returned =>
           \A a \in 1..Len(DEPENDENCIES) :
               DEPENDENCIES[a].service \in not_iterable
                   => DEPENDENCIES[a].service \notin DOMAIN SERVICE_LAYERS
    /\ pc = "done" =>
           /\ Places({"ok", "error_count"}) # {}
           /\ exit_code \in {0, 1}

FailFastWitness ==
    /\ pc = "raised"
    /\ Places(WarningKinds) # {}
    /\ violations # <<>>

\* C14 - Inputs are read-only: no step of a run changes the layer map or the
\* dependency map.
InputsReadOnly ==
    [][SERVICE_LAYERS' = SERVICE_LAYERS /\ DEPENDENCIES' = DEPENDENCIES]_vars

InputsReadOnlyWitness ==
    /\ pc = "done"
    /\ Len(violations) = 1
    /\ Places(WarningKinds) # {}
    /\ \E a \in 1..Len(DEPENDENCIES) : Len(DEPENDENCIES[a].deps) = 2

\* C16 - Termination and totality: on every dependency map whose values are
\* lists of names, unknown sources and unknown dependencies included, the
\* run reaches its end, and every step moves the loops forward, so that no
\* declared occurrence is inspected twice.
TerminatesTotal ==
    /\ <>(pc = "done")
    /\ [][\/ i' > i
          \/ (i' = i /\ j' > j)
          \/ (i' = i /\ j' = j /\ pc # "done" /\ pc' \in {"report", "exit", "done"} /\ pc' # pc)]_vars

TerminatesTotalWitness ==
    /\ pc = "done"
    /\ \E u \in Declared : UnknownDep(u)
    /\ \E a \in 1..Len(DEPENDENCIES) : DEPENDENCIES[a].service \notin DOMAIN SERVICE_LAYERS
    /\ violations # <<>>

\* C17 - Violation record well-formedness: at every point of a run every
\* record of the violation list carries the layers the layer map gives its
\* two names, the service's layer is strictly lower than the dependency's,
\* and the description names the service's layer first.
WellFormedRecords ==
    \A k \in 1..Len(violations) :
        LET v == violations[k]
        IN /\ v.service \in DOMAIN SERVICE_LAYERS
           /\ v.dependency \in DOMAIN SERVICE_LAYERS
           /\ v.service_layer = SERVICE_LAYERS[v.service]
           /\ v.dependency_layer = SERVICE_LAYERS[v.dependency]
           /\ v.service_layer < v.dependency_layer
           /\ v.violation = <<v.service_layer, v.dependency_layer>>

WellFormedRecordsWitness ==
    /\ pc = "for_dep"
    /\ j <= Len(DEPENDENCIES[i].deps)
    /\ Len(violations) = 2

\* C18 - Report shape: main returns the length of the violation list; with
\* none the success confirmation is printed and no block; with N > 0 exactly
\* N blocks are printed, numbered 1..N in the order of the list, each with
\* the names and layers of its record, and no success confirmation.
ReportShape ==
    pc \in {"exit", "done"} =>
        LET N == Len(violations)
            starts == Places({"block_service"})
        IN /\ violations_count = N
           /\ N = 0 => /\ Cardinality(Places({"ok"})) = 1
                       /\ Places(BlockKinds \cup {"error_count"}) = {}
           /\ N > 0 =>
                  /\ Places({"ok", "ok_head", "ok_same_or_lower", "ok_no_upward"}) = {}
                  /\ Cardinality(starts) = N
                  /\ \A k \in starts :
                         /\ stdout[k].a \in 1..N
                         /\ stdout[k].name = violations[stdout[k].a].service
                         /\ stdout[k].b = violations[stdout[k].a].service_layer
                         /\ stdout[k + 2].kind = "block_dependency"
                         /\ stdout[k + 2].name = violations[stdout[k].a].dependency
                         /\ stdout[k + 2].a = violations[stdout[k].a].dependency_layer
                  /\ \A k1, k2 \in starts : k1 < k2 => stdout[k1].a < stdout[k2].a

ReportShapeWitness ==
    /\ pc = "done"
    /\ violations_count = 2
    /\ violations[1].dependency # violations[2].dependency
    /\ Places(WarningKinds) = {}

\* C19 - The shipped model is clean: on the shipped tables every key and
\* every listed dependency of DEPENDENCIES is a key of SERVICE_LAYERS, no
\* service depends on a service of a strictly higher layer, the run prints
\* no warning, finds no violation and exits with code 0.
ShippedClean ==
    /\ \A a \in 1..Len(DEPENDENCIES) :
           /\ DEPENDENCIES[a].service \in DOMAIN SERVICE_LAYERS
           /\ \A b \in 1..Len(DEPENDENCIES[a].deps) :
                  /\ DEPENDENCIES[a].deps[b] \in DOMAIN SERVICE_LAYERS
                  /\ SERVICE_LAYERS[DEPENDENCIES[a].service]
                       >= SERVICE_LAYERS[DEPENDENCIES[a].deps[b]]
    /\ ~ENABLED UnknownService
    /\ violations = <<>>
    /\ Places(WarningKinds) = {}
    /\ pc # "done" => ENABLED NextShipped
    /\ pc = "done" => exit_code = 0 /\ violations_count = 0

ShippedCleanWitness ==
    /\ pc = "done"
    /\ exit_code = 0
    /\ Len(DEPENDENCIES) = 50
    /\ Cardinality(DOMAIN SERVICE_LAYERS) = 52

(***************************************************************************)
(* remove_dataurl.py: remove_data_url_from_json(file_path, overwrite).     *)
(* A path is a sequence of characters; a JSON value is a record of its     *)
(* kind, its text (strings) and its members (objects: key -> value; lists: *)
(* index -> value); a file holds a document in some formatting, or text    *)
(* that is no JSON, or is a directory.                                     *)
(***************************************************************************)
PathChars == {"a", ".", "/"}

Paths == UNION {[1..n -> PathChars] : n \in 0..MaxPathLen}

RECURSIVE LastIndexOf(_, _, _)
LastIndexOf(p, c, n) ==
    IF n = 0 THEN 0
    ELSE IF p[n] = c THEN n
    ELSE LastIndexOf(p, c, n - 1)

\* str.rfind, 1-based: 0 when the character does not occur.
rfind(p, c) == LastIndexOf(p, c, Len(p))

\* os.path.splitext: the extension starts at the last dot of the last
\* component, unless only dots precede it in that component.
splitext(p) ==
    LET sepIndex == rfind(p, "/")
        dotIndex == rfind(p, ".")
    IN  IF /\ dotIndex > sepIndex
           /\ \E k \in (sepIndex + 1)..(dotIndex - 1) : p[k] # "."
        THEN <<SubSeq(p, 1, dotIndex - 1), SubSeq(p, dotIndex, Len(p))>>
        ELSE <<p, <<>>>>

\* Lines 31-32: f"{base}_backup{ext}".
BackupPath(p) == splitext(p)[1] \o <<"_backup">> \o splitext(p)[2]

\* Lines 28-32 with the branches exchanged for nothing: always in place.
output_pathInPlace(p, ow) == p

\* Lines 28-32.
output_path(p, ow) == IF ow THEN p ELSE BackupPath(p)

\* A path that can only name a directory: it ends in a separator, or its
\* last component is "." or "..".
IsDirPath(p) ==
    \/ p = <<>>
    \/ p[Len(p)] = "/"
    \/ SubSeq(p, rfind(p, "/") + 1, Len(p)) \in {<<".">>, <<".", ".">>}

NoMembers == [k \in {} |-> {}]

Value(kind, text, members) == [kind |-> kind, text |-> text, members |-> members]

Str(text) == Value("string", text, NoMembers)

Null == Value("null", "", NoMembers)

Obj(members) == Value("object", "", members)

List(members) == Value("list", "", members)

\* The values config.image takes: objects with or without dataUrl and with
\* or without another key, and values that are no object.
ImageValues ==
    {Obj(m) : m \in UNION {[K -> {Str("img")}] : K \in SUBSET {"dataUrl", "src"}}}
        \cup {Str("img"), Str("dataUrl"), Null, List("0" :> Str("dataUrl"))}

ConfigValues ==
    {Obj(m) : m \in {NoMembers, "dataUrl" :> Str("img")}
                      \cup UNION {{"image" :> v, ("image" :> v) @@ ("dataUrl" :> Str("img"))}
                                    : v \in ImageValues}}
        \cup {Null}

Docs ==
    {Obj(m) : m \in {NoMembers, "dataUrl" :> Str("img")}
                      \cup UNION {{"config" :> v, ("config" :> v) @@ ("dataUrl" :> Str("img"))}
                                    : v \in ConfigValues}}
        \cup {List(NoMembers)}

Invalid == [format |-> "invalid", doc |-> Null]

Directory == [format |-> "directory", doc |-> Null]

\* What a regular file can hold.
FileContents == [format : {"compact", "indent2"}, doc : Docs] \cup {Invalid}

\* Line 17: json.load gives the document whatever its formatting.
json_load(content) == content.doc

\* Line 36: json.dump(data, f, ensure_ascii=False, indent=2).
json_dump(doc) == [format |-> "indent2", doc |-> doc]

EmptyDict == Obj(NoMembers)

IsDict(v) == v.kind = "object"

\* dict.get(key, {}).
Get(v, key) == IF key \in DOMAIN v.members THEN v.members[key] ELSE EmptyDict

\* Line 20, for a document whose "config" is a dict.
image_config(d) == Get(Get(d, "config"), "image")

\* Line 21: "dataUrl" in x, for a dict (key), a list (element) or a str
\* (substring).
Contains(v) ==
    CASE v.kind = "object" -> "dataUrl" \in DOMAIN v.members
      [] v.kind = "list" -> \E k \in DOMAIN v.members : v.members[k] = Str("dataUrl")
      [] v.kind = "string" -> v.text = "dataUrl"
      [] OTHER -> FALSE

\* Lines 20-22 raise: .get of a value that is no dict (AttributeError), "in"
\* of None, or del of a key of a str or a list (TypeError).
StripRaises(d) ==
    \/ ~IsDict(d)
    \/ ~IsDict(Get(d, "config"))
    \/ image_config(d).kind \notin {"object", "list", "string"}
    \/ Contains(image_config(d)) /\ ~IsDict(image_config(d))

Without(f, key) == [k \in DOMAIN f \ {key} |-> f[k]]

\* Line 22 deleting the key one level too high.
del_dataUrlOfConfig(d) ==
    [d EXCEPT !.members["config"].members = Without(@, "dataUrl")]

\* Line 22: del image_config["dataUrl"]; image_config is the dict inside data.
del_dataUrl(d) ==
    [d EXCEPT !.members["config"].members["image"].members = Without(@, "dataUrl")]

\* Lines 20-25.
Stripped(d) == IF Contains(image_config(d)) THEN del_dataUrl(d) ELSE d

\* The validator is not running.
NoValidator ==
    /\ SERVICE_LAYERS = <<>>
    /\ DEPENDENCIES = <<>>
    /\ not_iterable = {}
    /\ other = NoCall
    /\ pc = "none"
    /\ i = 0
    /\ j = 0
    /\ violations = <<>>
    /\ violations_count = 0
    /\ exit_code = -1
    /\ run = "first"
    /\ first = NoResult

Validator == <<SERVICE_LAYERS, DEPENDENCIES, not_iterable, other, pc, i, j,
               violations, violations_count, exit_code, run, first>>

\* Lines 46-51: the two arguments come from the user; the file at file_path
\* and the one at its backup path exist or not.
InitStripper ==
    /\ NoValidator
    /\ NoAnimations
    /\ NoStatistics
    /\ stdout = <<>>
    /\ file_path \in Paths
    /\ overwrite \in BOOLEAN
    /\ \E here \in {"absent", "file", "directory"}, there \in {"absent", "file", "directory"} :
         \E c \in FileContents :
            /\ here = "file" => ~IsDirPath(file_path)
            /\ here # "absent" => file_path # <<>>
            /\ here # "file" => c = Invalid
            /\ fs = [p \in (IF here = "absent" THEN {} ELSE {file_path})
                           \cup (IF there = "absent" THEN {} ELSE {BackupPath(file_path)})
                       |-> IF p = file_path
                           THEN (IF here = "file" THEN c ELSE Directory)
                           ELSE (IF there = "file" THEN Invalid ELSE Directory)]
    /\ rpc = "call"
    /\ data = <<>>

\* Lines 10-12.
RdNotExists ==
    /\ rpc = "call"
    /\ file_path \notin DOMAIN fs
    /\ stdout' = stdout \o <<Line("not_exists", file_path, 0, 0)>>
    /\ rpc' = "missing"
    /\ UNCHANGED <<Validator, Animations, Statistics, fs, file_path, overwrite, data>>

\* Line 16 on a directory: open raises, lines 42-43 print it.
RdOpenError ==
    /\ rpc = "call"
    /\ file_path \in DOMAIN fs
    /\ fs[file_path] = Directory
    /\ stdout' = stdout \o <<Line("error", "open", 0, 0)>>
    /\ rpc' = "failed"
    /\ UNCHANGED <<Validator, Animations, Statistics, fs, file_path, overwrite, data>>

\* Line 17 on text that is no JSON: lines 40-41.
RdDecodeError ==
    /\ rpc = "call"
    /\ file_path \in DOMAIN fs
    /\ fs[file_path] = Invalid
    /\ stdout' = stdout \o <<Line("decode_error", "", 0, 0)>>
    /\ rpc' = "failed"
    /\ UNCHANGED <<Validator, Animations, Statistics, fs, file_path, overwrite, data>>

\* Lines 16-17.
RdLoad ==
    /\ rpc = "call"
    /\ file_path \in DOMAIN fs
    /\ fs[file_path] \notin {Directory, Invalid}
    /\ data' = json_load(fs[file_path])
    /\ rpc' = "loaded"
    /\ UNCHANGED <<Validator, Animations, Statistics, stdout, fs, file_path, overwrite>>

\* Lines 20-22 raising, had the output file been written before the handler.
RdStripErrorSaving ==
    /\ rpc = "loaded"
    /\ StripRaises(data)
    /\ fs' = [p \in DOMAIN fs \cup {output_path(file_path, overwrite)}
                 |-> IF p = output_path(file_path, overwrite) THEN json_dump(data) ELSE fs[p]]
    /\ stdout' = stdout \o <<Line("error", "strip", 0, 0)>>
    /\ rpc' = "failed"
    /\ UNCHANGED <<Validator, Animations, Statistics, file_path, overwrite, data>>

\* Lines 20-22 raising: lines 42-43.
RdStripError ==
    /\ rpc = "loaded"
    /\ StripRaises(data)
    /\ stdout' = stdout \o <<Line("error", "strip", 0, 0)>>
    /\ rpc' = "failed"
    /\ UNCHANGED <<Validator, Animations, Statistics, fs, file_path, overwrite, data>>

\* Lines 20-25.
RdStrip ==
    /\ rpc = "loaded"
    /\ ~StripRaises(data)
    /\ data' = Stripped(data)
    /\ stdout' = stdout \o <<Line(IF Contains(image_config(data)) THEN "deleted" ELSE "not_found",
                                  "dataUrl", 0, 0)>>
    /\ rpc' = "stripped"
    /\ UNCHANGED <<Validator, Animations, Statistics, fs, file_path, overwrite>>

\* Line 35 on a directory: open raises, lines 42-43 print it.
RdSaveError ==
    /\ rpc = "stripped"
    /\ output_path(file_path, overwrite) \in DOMAIN fs
    /\ fs[output_path(file_path, overwrite)] = Directory
    /\ stdout' = stdout \o <<Line("error", "save", 0, 0)>>
    /\ rpc' = "failed"
    /\ UNCHANGED <<Validator, Animations, Statistics, fs, file_path, overwrite, data>>

\* Lines 28-38.
RdSave ==
    /\ rpc = "stripped"
    /\ LET out == output_path(file_path, overwrite)
       IN  /\ out \in DOMAIN fs => fs[out] # Directory
           /\ fs' = [p \in DOMAIN fs \cup {out} |-> IF p = out THEN json_dump(data) ELSE fs[p]]
           /\ stdout' = stdout \o <<Line("saved", out, 0, 0)>>
    /\ rpc' = "saved"
    /\ UNCHANGED <<Validator, Animations, Statistics, file_path, overwrite, data>>

NextStripper ==
    \/ RdNotExists
    \/ RdOpenError
    \/ RdDecodeError
    \/ RdLoad
    \/ RdStripError
    \/ RdStrip
    \/ RdSaveError
    \/ RdSave

SpecStripper == InitStripper /\ [][NextStripper]_vars

\* The interpreter keeps executing the call until it returns.
SpecStripperFair == SpecStripper /\ WF_vars(NextStripper)

\* C15 - Output placement: with overwrite=False no step changes the file at
\* file_path and the save writes the modified document to <base>_backup<ext>;
\* with overwrite=True the save writes the modified document to file_path,
\* and no step creates or changes any other file.
OverwriteContract ==
    [][/\ (~overwrite /\ file_path \in DOMAIN fs)
            => (file_path \in DOMAIN fs' /\ fs'[file_path] = fs[file_path])
       /\ overwrite
            => /\ DOMAIN fs' = DOMAIN fs
               /\ \A p \in DOMAIN fs \ {file_path} : fs'[p] = fs[p]
       /\ (rpc = "stripped" /\ rpc' = "saved")
            => LET target == IF overwrite THEN file_path
                             ELSE splitext(file_path)[1] \o <<"_backup">> \o splitext(file_path)[2]
               IN  /\ target \in DOMAIN fs'
                   /\ fs'[target] = json_dump(Stripped(json_load(fs[file_path])))
                   /\ DOMAIN fs' = DOMAIN fs \cup {target}]_vars

OverwriteContractWitness ==
    /\ rpc = "saved"
    /\ ~overwrite
    /\ splitext(file_path)[2] # <<>>
    /\ BackupPath(file_path) \in DOMAIN fs
    /\ fs[file_path].format = "compact"
    /\ fs[BackupPath(file_path)].doc # fs[file_path].doc

\* The document d is the document o without the key dataUrl of the object at
\* config.image, and nothing else differs.
OnlyImageDataUrlGone(o, d) ==
    /\ d.kind = o.kind
    /\ d.text = o.text
    /\ DOMAIN d.members = DOMAIN o.members
    /\ \A k \in DOMAIN o.members \ {"config"} : d.members[k] = o.members[k]
    /\ "config" \in DOMAIN o.members =>
         LET oc == o.members["config"]
             dc == d.members["config"]
         IN  /\ dc.kind = oc.kind
             /\ dc.text = oc.text
             /\ DOMAIN dc.members = DOMAIN oc.members
             /\ \A k \in DOMAIN oc.members \ {"image"} : dc.members[k] = oc.members[k]
             /\ "image" \in DOMAIN oc.members =>
                  LET oi == oc.members["image"]
                      di == dc.members["image"]
                  IN  /\ di.kind = oi.kind
                      /\ di.text = oi.text
                      /\ IF oi.kind = "object"
                         THEN DOMAIN di.members = DOMAIN oi.members \ {"dataUrl"}
                         ELSE DOMAIN di.members = DOMAIN oi.members
                      /\ \A k \in DOMAIN di.members : di.members[k] = oi.members[k]

\* C20 - Only config.image.dataUrl is removed: the document about to be
\* written is the loaded one without that key and with every other key and
\* value as it was, the written file holds exactly that document, and the
\* operation applied to the written file writes the same file again.
OnlyDataUrlRemoved ==
    /\ rpc = "stripped" => OnlyImageDataUrlGone(json_load(fs[file_path]), data)
    /\ rpc = "saved" =>
         LET out == fs[output_path(file_path, overwrite)]
         IN  /\ json_load(out) = data
             /\ ~Contains(image_config(data))
             /\ ~StripRaises(json_load(out))
             /\ json_dump(Stripped(json_load(out))) = out

OnlyDataUrlRemovedWitness ==
    /\ rpc = "saved"
    /\ ~overwrite
    /\ LET o == json_load(fs[file_path])
       IN  /\ "dataUrl" \in DOMAIN o.members
           /\ "dataUrl" \in DOMAIN Get(o, "config").members
           /\ DOMAIN image_config(o).members = {"dataUrl", "src"}
    /\ "dataUrl" \in DOMAIN data.members
    /\ "dataUrl" \in DOMAIN Get(data, "config").members
    /\ DOMAIN image_config(data).members = {"src"}

\* The file at file_path does not exist, or holds text that is no JSON, or
\* holds a document whose top-level value is no object.
FailureCase ==
    \/ file_path \notin DOMAIN fs
    \/ /\ file_path \in DOMAIN fs
       /\ \/ fs[file_path] = Invalid
          \/ /\ fs[file_path].format \in {"compact", "indent2"}
             /\ json_load(fs[file_path]).kind # "object"

\* C21 - Nothing is written on failure: the only step that creates or changes
\* a file is the save; a call on a missing file, on text that is no JSON or
\* on a document whose top-level value is no object never gets to the save,
\* and it returns (through line 12 or through an except handler).
WritesNothingOnFailure ==
    /\ [][fs' # fs => (rpc = "stripped" /\ rpc' = "saved")]_vars
    /\ [](rpc \in {"stripped", "saved"} /\ ~overwrite => ~FailureCase)
    /\ [](rpc = "stripped" => ~FailureCase)
    /\ (FailureCase /\ rpc = "call") ~> (rpc \in {"missing", "failed"} /\ FailureCase)

WritesNothingOnFailureWitness ==
    /\ rpc = "failed"
    /\ overwrite
    /\ file_path \in DOMAIN fs
    /\ fs[file_path].format = "compact"
    /\ json_load(fs[file_path]).kind = "list"
    /\ DOMAIN fs = {file_path}

(***************************************************************************)
(* count_all_animations.py: count_transitions and count_hovers.            *)
(* The style sheet is a list of lines.  A line is its text without the     *)
(* marks below, and whether it holds "{", ":hover" and "transition:", and  *)
(* whether the whole line is a /* ... */ comment.                          *)
(***************************************************************************)
CssLine(text, brace, hover, transition, comment) ==
    [text |-> text, brace |-> brace, hover |-> hover, transition |-> transition,
     comment |-> comment]

SelectorTexts ==
    {".Modal-Btn", ".card-input", ".card-item", ".plain", ".scrollbar-button",
     ".nav-panel", ".tooltip-hint", ".preset-mask", ".icon-dialog"}

Blank == CssLine("", FALSE, FALSE, FALSE, FALSE)

Close == CssLine("}", FALSE, FALSE, FALSE, FALSE)

\* "transition: all 0.3s;"
Decl == CssLine("", FALSE, FALSE, TRUE, FALSE)

\* ".card-item { transition: all 0.3s; }"
OneLine == CssLine(".card-item", TRUE, FALSE, TRUE, FALSE)

\* ".plain {" and, for every text, "<text>:hover {"
Open(text, hover) == CssLine(text, TRUE, hover, FALSE, FALSE)

\* ".card-input:hover," : the selector goes on in the next line
Part == CssLine(".card-input", FALSE, TRUE, FALSE, FALSE)

Comment(line) == [line EXCEPT !.comment = TRUE]

LineShapes ==
    {Open(t, TRUE) : t \in SelectorTexts}
        \cup {Open(".plain", FALSE), Part, Blank, Close, Decl, OneLine,
              Comment(Decl), Comment(Open(".Modal-Btn", TRUE))}

CssContents == UNION {[1..n -> LineShapes] : n \in 1..MaxLines}

\* Lines 19 and 72: re.sub(r'/\*.*?\*/', '', css_content).
strip_comments(css) == [n \in 1..Len(css) |-> IF css[n].comment THEN Blank ELSE css[n]]

LookBack == 20

SelectorLookBack == 5

Max(a, b) == IF a > b THEN a ELSE b

Highest(S) == CHOOSE m \in S : \A n \in S : n <= m

\* Lines 27-34 for the line at position n (counted from 1): the nearest of
\* the lines before it that holds "{", the first line of the file excluded
\* by range(i-1, max(0, i-20), -1), gives the selector; "" is <<>>.
selector_of(lines, n) ==
    LET js == {m \in (Max(0, n - 1 - LookBack) + 2)..(n - 1) : lines[m].brace}
    IN  IF js = {} THEN <<>>
        ELSE LET j0 == Highest(js)
                 ks == {k \in (Max(0, j0 - 1 - SelectorLookBack) + 2)..j0 : lines[k] # Blank}
             IN  IF ks = {} THEN <<>> ELSE <<lines[Highest(ks)]>>

\* Lines 25-35.
RECURSIVE find_transitions(_, _)
find_transitions(lines, n) ==
    IF n = 0 THEN <<>>
    ELSE find_transitions(lines, n - 1)
            \o (IF lines[n].transition THEN <<selector_of(lines, n)>> ELSE <<>>)

\* Lines 73-74: re.findall(r'([^{}\n]+:hover[^{]*)\s*\{').  A match starts in
\* a line that holds ":hover" and runs, over line ends, to the next "{";
\* start is the line where a match is under way, 0 when none is.
RECURSIVE find_hovers(_, _, _)
find_hovers(lines, n, start) ==
    IF n > Len(lines) THEN <<>>
    ELSE LET from == IF start > 0 THEN start
                     ELSE IF lines[n].hover THEN n ELSE 0
         IN  IF from = 0 THEN find_hovers(lines, n + 1, 0)
             ELSE IF lines[n].brace
                  THEN <<SubSeq(lines, from, n)>> \o find_hovers(lines, n + 1, 0)
                  ELSE find_hovers(lines, n + 1, from)

\* str.lower.
lower(text) ==
    CASE text = ".Modal-Btn" -> ".modal-btn"
      [] OTHER -> text

\* The keywords of the two if/elif chains that occur in a lowered text.
Substrings(text) ==
    CASE text = ".modal-btn" -> {"btn", "modal"}
      [] text = ".card-input" -> {"card", "input"}
      [] text = ".card-item" -> {"card", "item"}
      [] text = ".scrollbar-button" -> {"button", "scrollbar"}
      [] text = ".nav-panel" -> {"nav", "panel"}
      [] text = ".tooltip-hint" -> {"hint", "tooltip"}
      [] text = ".preset-mask" -> {"mask", "preset"}
      [] text = ".icon-dialog" -> {"dialog", "icon"}
      [] OTHER -> {}

\* Lines 51-66: the if/elif chain of count_transitions, in its order.  The
\* category names stand for the Chinese keys of lines 39-46.
TransitionRules ==
    << [category |-> "button_control", keywords |-> {"btn", "button", "control"}],
       [category |-> "modal_dialog", keywords |-> {"modal", "dialog"}],
       [category |-> "input", keywords |-> {"input", "select", "slider", "checkbox", "trigger"}],
       [category |-> "card_item", keywords |-> {"card", "item", "sequence"}],
       [category |-> "tip_tool", keywords |-> {"tooltip", "hint", "message"}],
       [category |-> "animation", keywords |-> {"bubble", "animation", "preset", "visualization", "mask"}],
       [category |-> "layout_panel", keywords |-> {"panel", "sidebar", "container", "section",
                                                   "wrapper", "canvas", "page", "nav"}] >>

\* Lines 39-46.
TransitionCategories ==
    {"button_control", "card_item", "modal_dialog", "input", "tip_tool", "layout_panel",
     "animation", "other"}

\* Lines 88-103: the if/elif chain of count_hovers, in its order.
HoverRules ==
    << [category |-> "scrollbar", keywords |-> {"scrollbar"}],
       [category |-> "button", keywords |-> {"btn", "button", "-close"}],
       [category |-> "card", keywords |-> {"card"}],
       [category |-> "input", keywords |-> {"input", "select", "slider", "checkbox", "trigger", "preset"}],
       [category |-> "icon_svg_arrow", keywords |-> {"icon", "svg", "arrow"}],
       [category |-> "link_nav", keywords |-> {"link", "nav", "item.show", "qr-code-item"}],
       [category |-> "panel_container", keywords |-> {"panel", "container", "section", "label",
                                                      "hint", "box"}] >>

\* Lines 77-84.
HoverCategories ==
    {"button", "card", "input", "icon_svg_arrow", "scrollbar", "link_nav",
     "panel_container", "other"}

\* any(kw in lower for kw in keywords), lower being s.lower().
Matches(s, keywords) ==
    \E n \in 1..Len(s) : Substrings(lower(s[n].text)) \cap keywords # {}

\* The chain read as separate ifs of which the last one wins.
RECURSIVE CategoryLastFrom(_, _, _)
CategoryLastFrom(rules, s, n) ==
    IF n = 0 THEN "other"
    ELSE IF Matches(s, rules[n].keywords) THEN rules[n].category
    ELSE CategoryLastFrom(rules, s, n - 1)

CategoryLast(rules, s) == CategoryLastFrom(rules, s, Len(rules))

\* if / elif / ... / else.
RECURSIVE CategoryFrom(_, _, _)
CategoryFrom(rules, s, n) ==
    IF n > Len(rules) THEN "other"
    ELSE IF Matches(s, rules[n].keywords) THEN rules[n].category
    ELSE CategoryFrom(rules, s, n + 1)

Category(rules, s) == CategoryFrom(rules, s, 1)

\* Lines 136-138 of main: the style sheet is read, then the functions are
\* called on it.
InitAnimations ==
    /\ NoValidator
    /\ NoStripper
    /\ NoStatistics
    /\ stdout = <<>>
    /\ css_content \in CssContents
    /\ func \in {"count_transitions", "count_hovers"}
    /\ found = <<>>
    /\ categories = <<>>
    /\ cpc = "call"
    /\ cidx = 0
    /\ result = -1

Others == <<Validator, Stripper, Statistics, stdout>>

\* Lines 19-47.
FindTransitions ==
    /\ func = "count_transitions"
    /\ cpc = "call"
    /\ found' = find_transitions(strip_comments(css_content), Len(css_content))
    /\ categories' = [c \in TransitionCategories |-> <<>>]
    /\ cidx' = 1
    /\ cpc' = "classify"
    /\ UNCHANGED <<Others, css_content, func, result>>

\* Lines 49-66, one iteration.
ClassifyTransition ==
    /\ func = "count_transitions"
    /\ cpc = "classify"
    /\ cidx <= Len(found)
    /\ categories' = [categories EXCEPT ![Category(TransitionRules, found[cidx])]
                                            = Append(@, found[cidx])]
    /\ cidx' = cidx + 1
    /\ UNCHANGED <<Others, css_content, func, found, cpc, result>>

\* Line 68.
ReturnTransitions ==
    /\ func = "count_transitions"
    /\ cpc = "classify"
    /\ cidx > Len(found)
    /\ result' = Len(found)
    /\ cpc' = "returned"
    /\ UNCHANGED <<Others, css_content, func, found, categories, cidx>>

\* Lines 72-84.
FindHovers ==
    /\ func = "count_hovers"
    /\ cpc = "call"
    /\ found' = find_hovers(strip_comments(css_content), 1, 0)
    /\ categories' = [c \in HoverCategories |-> <<>>]
    /\ cidx' = 1
    /\ cpc' = "classify"
    /\ UNCHANGED <<Others, css_content, func, result>>

\* Lines 86-105, one iteration.
ClassifyHover ==
    /\ func = "count_hovers"
    /\ cpc = "classify"
    /\ cidx <= Len(found)
    /\ categories' = [categories EXCEPT ![Category(HoverRules, found[cidx])]
                                            = Append(@, found[cidx])]
    /\ cidx' = cidx + 1
    /\ UNCHANGED <<Others, css_content, func, found, cpc, result>>

\* Line 107.
ReturnHovers ==
    /\ func = "count_hovers"
    /\ cpc = "classify"
    /\ cidx > Len(found)
    /\ result' = Len(found)
    /\ cpc' = "returned"
    /\ UNCHANGED <<Others, css_content, func, found, categories, cidx>>

NextAnimations ==
    \/ FindTransitions
    \/ ClassifyTransition
    \/ ReturnTransitions
    \/ FindHovers
    \/ ClassifyHover
    \/ ReturnHovers

SpecAnimations == InitAnimations /\ [][NextAnimations]_vars

RECURSIVE TotalLength(_, _)
TotalLength(f, S) ==
    IF S = {} THEN 0
    ELSE LET c == CHOOSE x \in S : TRUE
         IN  Len(f[c]) + TotalLength(f, S \ {c})

CountIn(seq, x) == Cardinality({n \in 1..Len(seq) : seq[n] = x})

\* The chain of the function that is running.
RulesOfCall == IF func = "count_transitions" THEN TransitionRules ELSE HoverRules

\* c is the category of the first rule, in the order of the chain, whose
\* keywords occur in s, or the catch-all when no rule's keywords do.
IsFirstMatch(c, s) ==
    \/ \E n \in 1..Len(RulesOfCall) :
          /\ RulesOfCall[n].category = c
          /\ Matches(s, RulesOfCall[n].keywords)
          /\ \A m \in 1..(n - 1) : ~Matches(s, RulesOfCall[m].keywords)
    \/ /\ c = "other"
       /\ \A n \in 1..Len(RulesOfCall) : ~Matches(s, RulesOfCall[n].keywords)

\* C22 - Categorization is a partition: while the loop runs the category
\* lists together hold as many selectors as the loop has passed; at the
\* return their lengths add up to the returned count, which is the number of
\* found selectors, and every found selector is in the list of the first
\* category whose keywords match (else of the catch-all), as often as it was
\* found, and in no other list.
CategoriesPartition ==
    /\ cpc = "classify" => TotalLength(categories, DOMAIN categories) = cidx - 1
    /\ cpc = "returned" =>
         /\ result = Len(found)
         /\ TotalLength(categories, DOMAIN categories) = result
         /\ \A n \in 1..Len(found) : \A c \in DOMAIN categories :
               CountIn(categories[c], found[n])
                   = IF IsFirstMatch(c, found[n]) THEN CountIn(found, found[n]) ELSE 0

CategoriesPartitionWitness ==
    /\ cpc = "returned"
    /\ func = "count_transitions"
    /\ result = 2
    /\ found[1] = <<>>
    /\ Cardinality({r \in 1..Len(TransitionRules) :
                       Matches(found[2], TransitionRules[r].keywords)}) = 2
    /\ Len(categories["other"]) = 1
    /\ Len(categories["button_control"]) = 1

(***************************************************************************)
(* count_project_files.py: the component totals of                         *)
(* print_service_statistics.  A directory is the number of .js files below *)
(* it.                                                                     *)
(***************************************************************************)
\* Lines 41-51.
SERVICE_CONFIG ==
    [core_factories |-> 1,
     utils_unregistered_files |-> 1,
     ui_factories_in_components |-> 4,
     ui_unregistered_files |-> 1]

\* Lines 54-60.
SERVICE_DIRS ==
    [business |-> "js/services/business",
     utils |-> "js/services/utils",
     system |-> "js/services/system",
     ui |-> "js/services/ui",
     modal |-> "js/services/modal"]

\* Lines 137-143: the directories count_core_files counts.
PatternDirs ==
    {"js/patterns/scroll", "js/patterns/file", "js/patterns/entry", "js/patterns/transition"}

CountedDirs == {SERVICE_DIRS[c] : c \in DOMAIN SERVICE_DIRS} \cup PatternDirs

\* Lines 69-102, for the extension '.js' and no excluded directory: 0 for a
\* directory that does not exist.
count_files_in_dir(dir_path) == js_files[dir_path]

\* Lines 104-116.
count_services_by_category ==
    [category \in DOMAIN SERVICE_DIRS |-> count_files_in_dir(SERVICE_DIRS[category])]

\* Lines 118-152.
count_core_files ==
    LET strategy_managers == (count_files_in_dir("js/patterns/scroll")
                              + count_files_in_dir("js/patterns/file")
                              + count_files_in_dir("js/patterns/entry")) \div 2
        object_pools == count_files_in_dir("js/patterns/transition")
        core_factories == SERVICE_CONFIG.core_factories
    IN  [strategy_managers |-> strategy_managers,
         object_pools |-> object_pools,
         component_factories |-> core_factories,
         core_total |-> strategy_managers + object_pools + core_factories]

\* sum(d.values()).
RECURSIVE SumValues(_, _)
SumValues(d, keys) ==
    IF keys = {} THEN 0
    ELSE LET k == CHOOSE x \in keys : TRUE
         IN  d[k] + SumValues(d, keys \ {k})

\* Line 295.
ui_total_of(counts) ==
    counts.ui + counts.modal + SERVICE_CONFIG.ui_factories_in_components
        - SERVICE_CONFIG.ui_unregistered_files

\* Line 302 forgetting the unregistered utils file.
total_services_ofAllUtils(core, counts) ==
    core.core_total + SumValues(counts, DOMAIN counts)
        + SERVICE_CONFIG.ui_factories_in_components - SERVICE_CONFIG.ui_unregistered_files

\* Line 302.
total_services_of(core, counts) ==
    core.core_total + SumValues(counts, DOMAIN counts)
        + SERVICE_CONFIG.ui_factories_in_components - SERVICE_CONFIG.ui_unregistered_files
        - SERVICE_CONFIG.utils_unregistered_files

\* Lines 771-783 of main: print_service_statistics is called on the project
\* tree as it is.
InitStatistics ==
    /\ NoValidator
    /\ NoStripper
    /\ NoAnimations
    /\ stdout = <<>>
    /\ js_files \in [CountedDirs -> 0..MaxCount]
    /\ service_counts = <<>>
    /\ core_counts = <<>>
    /\ ui_total = 0
    /\ utils_registered = 0
    /\ total_services = 0
    /\ equation = <<>>
    /\ spc = "call"

Rest == <<Validator, Stripper, Animations, stdout, js_files>>

\* Line 269.
CountServices ==
    /\ spc = "call"
    /\ service_counts' = count_services_by_category
    /\ spc' = "services"
    /\ UNCHANGED <<Rest, core_counts, ui_total, utils_registered, total_services, equation>>

\* Line 270.
CountCore ==
    /\ spc = "services"
    /\ core_counts' = count_core_files
    /\ spc' = "core"
    /\ UNCHANGED <<Rest, service_counts, ui_total, utils_registered, total_services, equation>>

\* Lines 292-296.
UiTotal ==
    /\ spc = "core"
    /\ ui_total' = ui_total_of(service_counts)
    /\ spc' = "ui"
    /\ UNCHANGED <<Rest, service_counts, core_counts, utils_registered, total_services, equation>>

\* Lines 299-303.
TotalServices ==
    /\ spc = "ui"
    /\ utils_registered' = service_counts.utils - SERVICE_CONFIG.utils_unregistered_files
    /\ total_services' = total_services_of(core_counts, service_counts)
    /\ equation' = <<total_services', core_counts.core_total, utils_registered',
                     service_counts.business, service_counts.system, ui_total>>
    /\ spc' = "printed"
    /\ UNCHANGED <<Rest, service_counts, core_counts, ui_total>>

NextStatistics ==
    \/ CountServices
    \/ CountCore
    \/ UiTotal
    \/ TotalServices

SpecStatistics == InitStatistics /\ [][NextStatistics]_vars

\* C23 - Total identity: once line 303 has printed, the total it shows is the
\* sum of the five terms it shows after the "=", and these are core_total,
\* utils - utils_unregistered, business, system and
\* ui + modal + ui_factories - ui_unregistered of the counted directories.
TotalIdentity ==
    spc = "printed" =>
        LET utils == js_files["js/services/utils"]
            business == js_files["js/services/business"]
            system == js_files["js/services/system"]
            ui == js_files["js/services/ui"]
            modal == js_files["js/services/modal"]
            ui_sum == ui + modal + SERVICE_CONFIG.ui_factories_in_components
                         - SERVICE_CONFIG.ui_unregistered_files
        IN  /\ total_services
                 = core_counts.core_total
                     + (utils - SERVICE_CONFIG.utils_unregistered_files)
                     + business + system + ui_sum
            /\ equation = <<total_services, core_counts.core_total,
                            utils - SERVICE_CONFIG.utils_unregistered_files,
                            business, system, ui_sum>>
            /\ equation[1] = equation[2] + equation[3] + equation[4] + equation[5] + equation[6]

TotalIdentityWitness ==
    /\ spc = "printed"
    /\ service_counts.utils = 0
    /\ service_counts.ui = 2
    /\ service_counts.modal = 1
    /\ service_counts.business = 1
    /\ core_counts.strategy_managers = 1
    /\ js_files["js/patterns/scroll"] + js_files["js/patterns/file"] + js_files["js/patterns/entry"] = 3
    /\ equation[3] = -1
    /\ total_services > 0

====
